---- MODULE Spec2Model ----
(***************************************************************************)
(* The v-pop popover directive (directives/Pop) as a state machine for one *)
(* trigger element `el`.  Time advances in ticks of 100 ms: the fade-out   *)
(* lasts `time` = 0.2 s = 2 ticks, the auto-close delay CLOSE_DELAY =      *)
(* 500 ms = 5 ticks.  A timer that is due must run before time advances.   *)
(***************************************************************************)
EXTENDS Integers, Sequences, FiniteSets, TLC

\* ---------------------------------------------------------------- bounds
MaxElems == 2          \* distinct floating-element identities in use at once
MaxSubs == 2           \* autoUpdate subscriptions alive at once
MaxHidesPerTick == 1   \* user-initiated hides within one 100 ms tick

\* ------------------------------------------------------- program constants
time == 2              \* const time = 0.2 (seconds), in ticks of 100 ms
CLOSE_DELAY == 5       \* const CLOSE_DELAY = 500 (ms), in ticks of 100 ms

NoElem == 0
NoTimer == -1
ElemIds == 1..MaxElems

Sides == {"top", "right", "bottom", "left"}
Aligns == {"", "start", "end"}
\* a Placement "side" or "side-align" as the pair its split("-") yields
Placements == [side : Sides, align : Aligns]
NoArg == [side |-> "", align |-> ""]
Args == {NoArg, [side |-> "right", align |-> "start"]}

\* Map placement positions to CSS transform-origin; "undefined" off the map
origins(side) ==
  CASE side = "top" -> "bottom"
    [] side = "right" -> "left"
    [] side = "bottom" -> "top"
    [] side = "left" -> "right"
    [] OTHER -> "undefined"

\* binding values: absent, a string (as its characters), a number, a function
\* (as the characters of the markup it returns)
Absent == [kind |-> "absent", s |-> <<>>, n |-> 0]
Values == {[kind |-> "str", s |-> <<" ", "a", " ">>, n |-> 0],
           [kind |-> "fn", s |-> <<"<b>", " ">>, n |-> 0]}
WideValues == Values \cup
              {Absent,
               [kind |-> "str", s |-> <<>>, n |-> 0],
               [kind |-> "str", s |-> <<" ", " ">>, n |-> 0],
               [kind |-> "num", s |-> <<>>, n |-> 0],
               [kind |-> "num", s |-> <<>>, n |-> 42]}

DigitChar(d) == <<"0", "1", "2", "3", "4", "5", "6", "7", "8", "9">>[d + 1]

RECURSIVE Digits(_)
Digits(n) == IF n < 10 THEN <<DigitChar(n)>>
             ELSE Digits(n \div 10) \o <<DigitChar(n % 10)>>

\* val.toString()
toString(val) == IF val.kind = "num" THEN Digits(val.n) ELSE val.s

RECURSIVE TrimLeft(_)
TrimLeft(s) == IF s # <<>> /\ Head(s) = " " THEN TrimLeft(Tail(s)) ELSE s

RECURSIVE TrimRight(_)
TrimRight(s) ==
  IF s # <<>> /\ s[Len(s)] = " " THEN TrimRight(SubSeq(s, 1, Len(s) - 1)) ELSE s

\* val?.toString().trim() || ""
trimmed(val) ==
  IF val.kind = "absent" THEN <<>> ELSE TrimRight(TrimLeft(toString(val)))

\* setContent that inserts markup only under the html modifier
setContent_htmlOnly(b) ==
  [markup |-> b.html,
   text |-> IF b.value.kind = "fn" THEN b.value.s ELSE trimmed(b.value)]

\* setContent: the content the floating element holds afterwards
setContent(b) ==
  IF b.html \/ b.value.kind = "fn"
    THEN [markup |-> TRUE,
          text |-> IF b.value.kind = "fn" THEN b.value.s ELSE trimmed(b.value)]
    ELSE [markup |-> FALSE, text |-> trimmed(b.value)]

NoBinding == [click |-> FALSE, html |-> FALSE, arg |-> NoArg, value |-> Absent]
NoContent == [markup |-> FALSE, text |-> <<>>]

\* a floating element that does not exist; `position` is the placement whose
\* coordinates the element's top / left were last set to, NoArg before that
NoElemRec == [content |-> NoContent, opacity |-> "", transform |-> "",
              display |-> "", transformOrigin |-> "", position |-> NoArg,
              pointerEvents |-> "", hover |-> FALSE]

VARIABLES
  phase,        \* "unmounted" | "mounted" | "detached"
  binding,      \* the binding passed to mounted(), captured by the closures
  latest,       \* the binding most recently supplied by the host
  popover,      \* el._popover: element id or NoElem
  body,         \* floating elements attached to document.body
  elems,        \* id -> content, inline style and hover listeners
  timeout,      \* el._timeout: ticks left of the pending auto-close timer
  destroyTimers,\* ticks left of each pending setTimeout(destroyPopover)
  cleanup,      \* el._autoUpdateCleanup is set
  subs,         \* autoUpdate subscriptions started and not cancelled
  docClick,     \* clickOutsideHandler is registered on document
  elListeners,  \* listeners registered on the trigger, <<type, handler>>
  inflight,     \* pending computePosition promises, by whether the floating
                \* element passed to the call is still el._popover ("current")
                \* or has been destroyed since ("stale")
  pointer,      \* what the pointer is over
  unhandled,    \* the last step ended in an unhandled promise rejection
  clicked       \* what the click handled in the last step landed on, or "none"

vars == <<phase, binding, latest, popover, body, elems, timeout, destroyTimers,
          cleanup, subs, docClick, elListeners, inflight, pointer, unhandled,
          clicked>>

\* the state the handlers read and write
Cur == [popover |-> popover, body |-> body, elems |-> elems,
        timeout |-> timeout, destroyTimers |-> destroyTimers,
        cleanup |-> cleanup, subs |-> subs, docClick |-> docClick,
        inflight |-> inflight, rejected |-> FALSE]

StateOf(s) ==
  IF s.popover = NoElem THEN "idle"
  ELSE IF s.elems[s.popover].opacity = "1" THEN "showing" ELSE "hiding"

State == StateOf(Cur)

isInteractive == binding.click \/ binding.html
placement == IF binding.arg = NoArg THEN [side |-> "top", align |-> ""]
             ELSE binding.arg
origin == IF origins(placement.side) = "undefined" THEN "top"
          ELSE origins(placement.side)

OppositeAlign(align) ==
  CASE align = "start" -> "end"
    [] align = "end" -> "start"
    [] OTHER -> align

\* flip(): the solver keeps the requested placement or, when that overflows,
\* resolves to the opposite side, the opposite alignment, or both
Resolved(p) ==
  {[side |-> sd, align |-> al] : sd \in {p.side, origins(p.side)},
                                 al \in {p.align, OppositeAlign(p.align)}}

FreshIds(s) == ElemIds \ (s.body \cup {s.popover})
FreshId(s) == CHOOSE i \in FreshIds(s) : \A j \in FreshIds(s) : i <= j

createPopover(s) ==
  LET id == FreshId(s) IN
  [s EXCEPT !.elems[id] = [content |-> setContent(binding), opacity |-> "0",
                           transform |-> "scale(0.7)", display |-> "none",
                           transformOrigin |-> origin, position |-> NoArg,
                           pointerEvents |-> IF isInteractive THEN "auto"
                                             ELSE "none",
                           hover |-> isInteractive],
            !.body = @ \cup {id},
            !.popover = id]

\* the promises pending once el._popover is gone
Stale(calls) == IF calls = {} THEN {} ELSE {"stale"}

\* destroyPopover that clears the reference and leaves the node in the body
destroyPopover_keepsNode(s) ==
  IF s.popover = NoElem THEN s
  ELSE [s EXCEPT !.popover = NoElem, !.inflight = Stale(@)]

\* destroyPopover that removes the node and keeps the reference to it
destroyPopover_keepsRef(s) ==
  IF s.popover = NoElem THEN s
  ELSE [s EXCEPT !.body = @ \ {s.popover},
                 !.elems[s.popover] = NoElemRec,
                 !.inflight = Stale(@)]

destroyPopover(s) ==
  IF s.popover = NoElem THEN s
  ELSE [s EXCEPT !.body = @ \ {s.popover},
                 !.elems[s.popover] = NoElemRec,
                 !.popover = NoElem,
                 !.inflight = Stale(@)]

\* updatePosition up to its await: the call to computePosition
updatePosition(s) ==
  IF s.popover # NoElem THEN [s EXCEPT !.inflight = @ \cup {"current"}] ELSE s

\* updatePosition that derives the origin from the requested placement
applyPosition_requested(s, finalPlacement) ==
  IF s.popover = NoElem THEN [s EXCEPT !.rejected = TRUE]
  ELSE [s EXCEPT !.elems[s.popover].transformOrigin = origin,
                 !.elems[s.popover].position = finalPlacement]

\* updatePosition after its await, with the resolved placement
applyPosition(s, finalPlacement) ==
  IF s.popover = NoElem THEN [s EXCEPT !.rejected = TRUE]
  ELSE [s EXCEPT !.elems[s.popover].transformOrigin = origins(finalPlacement.side),
                 !.elems[s.popover].position = finalPlacement]

showPopover(s) ==
  LET s1 == IF s.popover = NoElem THEN createPopover(s) ELSE s
      s2 == [s1 EXCEPT !.elems[s1.popover].content = setContent(binding)]
      s3 == updatePosition(s2)
  IN [s3 EXCEPT !.elems[s3.popover].display = "inline-block",
                !.elems[s3.popover].opacity = "1",
                !.elems[s3.popover].transform = "scale(1)",
                !.cleanup = TRUE,
                !.subs = @ + 1,
                !.docClick = IF binding.click THEN TRUE ELSE @]

\* hidePopover that never schedules the destruction
hidePopover_noTimer(s) ==
  IF s.popover # NoElem
    THEN [s EXCEPT !.elems[s.popover].opacity = "0",
                   !.elems[s.popover].transform = "scale(0.7)",
                   !.subs = IF s.cleanup THEN @ - 1 ELSE @,
                   !.cleanup = FALSE,
                   !.docClick = IF binding.click THEN FALSE ELSE @]
    ELSE s

hidePopover(s) ==
  IF s.popover # NoElem
    THEN [s EXCEPT !.elems[s.popover].opacity = "0",
                   !.elems[s.popover].transform = "scale(0.7)",
                   !.destroyTimers = Append(@, time),
                   !.subs = IF s.cleanup THEN @ - 1 ELSE @,
                   !.cleanup = FALSE,
                   !.docClick = IF binding.click THEN FALSE ELSE @]
    ELSE s

delayedHide(s) == [s EXCEPT !.timeout = CLOSE_DELAY]

\* clearTimeoutHandler that leaves the timer running
clearTimeoutHandler_noClear(s) == s

clearTimeoutHandler(s) == [s EXCEPT !.timeout = NoTimer]

\* clickHandler that opens whatever the popover's opacity
clickHandler_alwaysShow(s) == showPopover(s)

clickHandler(s) ==
  IF s.popover # NoElem /\ s.elems[s.popover].opacity = "1"
    THEN hidePopover(s) ELSE showPopover(s)

\* target: what the click landed on
clickOutsideHandler(s, target) ==
  IF target # "trigger" /\ target # "popover" THEN hidePopover(s) ELSE s

\* the listeners mounted() registers on the trigger
mountedListeners(click) ==
  IF click THEN {<<"click", "clickHandler">>, <<"mouseleave", "delayedHide">>,
                 <<"mouseenter", "clearTimeoutHandler">>}
  ELSE {<<"mouseenter", "showPopover">>, <<"mouseleave", "hidePopover">>}

\* el._removeEventListeners that leaves the document listener registered
removeEventListeners_keepsDocument(s) == destroyPopover(s)

\* el._removeEventListeners
removeEventListeners(s) == destroyPopover([s EXCEPT !.docClick = FALSE])

removedListeners ==
  {<<"click", "clickHandler">>, <<"mouseenter", "showPopover">>,
   <<"mouseleave", "hidePopover">>, <<"mouseleave", "delayedHide">>,
   <<"mouseenter", "clearTimeoutHandler">>}

Init ==
  /\ phase = "unmounted"
  /\ binding = NoBinding
  /\ latest = NoBinding
  /\ popover = NoElem
  /\ body = {}
  /\ elems = [i \in ElemIds |-> NoElemRec]
  /\ timeout = NoTimer
  /\ destroyTimers = <<>>
  /\ cleanup = FALSE
  /\ subs = 0
  /\ docClick = FALSE
  /\ elListeners = {}
  /\ inflight = {}
  /\ pointer = "outside"
  /\ unhandled = FALSE
  /\ clicked = "none"

\* ---------------------------------------------------------------- steps
TimersAt(s, t) == {i \in DOMAIN s.destroyTimers : s.destroyTimers[i] = t}

\* a user event stays within the bounds of the model
WithinBounds(s) ==
  /\ s.subs <= MaxSubs
  /\ \/ s.destroyTimers = destroyTimers
     \/ Cardinality(TimersAt(s, time)) <= MaxHidesPerTick

\* a floating element removed from under the pointer leaves it over nothing
PointerAfter(s, p) == IF p = "popover" /\ s.popover = NoElem THEN "outside" ELSE p

Commit(s, p, c) ==
  /\ popover' = s.popover
  /\ body' = s.body
  /\ elems' = s.elems
  /\ timeout' = s.timeout
  /\ destroyTimers' = s.destroyTimers
  /\ cleanup' = s.cleanup
  /\ subs' = s.subs
  /\ docClick' = s.docClick
  /\ inflight' = s.inflight
  /\ pointer' = PointerAfter(s, p)
  /\ unhandled' = s.rejected
  /\ clicked' = c

\* mounted(el, binding)
Attach(click, html, arg, value) ==
  /\ phase = "unmounted"
  /\ phase' = "mounted"
  /\ binding' = [click |-> click, html |-> html, arg |-> arg, value |-> value]
  /\ latest' = binding'
  /\ elListeners' = mountedListeners(click)
  /\ Commit(Cur, pointer, "none")

\* updated that creates the floating element when there is none
updated_creates(s, b) ==
  LET s1 == IF s.popover = NoElem THEN createPopover(s) ELSE s IN
  [s1 EXCEPT !.elems[s1.popover].content = setContent(b)]

\* updated(el, binding): the host supplies a new binding object
updated(s, b) ==
  IF s.popover # NoElem THEN [s EXCEPT !.elems[s.popover].content = setContent(b)]
  ELSE s

Update(value) ==
  /\ phase = "mounted"
  /\ latest' = [latest EXCEPT !.value = value]
  /\ Commit(updated(Cur, latest'), pointer, "none")
  /\ UNCHANGED <<phase, binding, elListeners>>

\* beforeUnmount(el)
Detach ==
  /\ phase = "mounted"
  /\ phase' = "detached"
  /\ elListeners' = elListeners \ removedListeners
  /\ Commit(removeEventListeners(Cur), pointer, "none")
  /\ UNCHANGED <<binding, latest>>

\* dispatch of mouseleave / mouseenter to the listeners registered on a node
mouseleave(s, node) ==
  IF node = "trigger"
    THEN LET s1 == IF <<"mouseleave", "delayedHide">> \in elListeners
                     THEN delayedHide(s) ELSE s
         IN IF <<"mouseleave", "hidePopover">> \in elListeners
              THEN hidePopover(s1) ELSE s1
  ELSE IF node = "popover" /\ s.popover # NoElem /\ s.elems[s.popover].hover
    THEN delayedHide(s)
  ELSE s

mouseenter(s, node) ==
  IF node = "trigger"
    THEN LET s1 == IF <<"mouseenter", "clearTimeoutHandler">> \in elListeners
                     THEN clearTimeoutHandler(s) ELSE s
         IN IF <<"mouseenter", "showPopover">> \in elListeners
              THEN showPopover(s1) ELSE s1
  ELSE IF node = "popover" /\ s.popover # NoElem /\ s.elems[s.popover].hover
    THEN clearTimeoutHandler(s)
  ELSE s

\* the floating element can be hit by the pointer
Hittable ==
  /\ popover # NoElem
  /\ elems[popover].display = "inline-block"
  /\ elems[popover].pointerEvents = "auto"

\* the pointer moves from one node to another: mouseleave, then mouseenter
PointerMove(to) ==
  /\ phase # "unmounted"
  /\ to # pointer
  /\ to = "popover" => Hittable
  /\ (to = "trigger" /\ <<"mouseenter", "showPopover">> \in elListeners
        /\ popover = NoElem) => FreshIds(Cur) # {}
  /\ LET s == mouseenter(mouseleave(Cur, pointer), to) IN
       /\ WithinBounds(s)
       /\ Commit(s, to, "none")
  /\ UNCHANGED <<phase, binding, latest, elListeners>>

\* a click where the pointer is: the target's listeners, then the document's
\* unless a listener stopped the propagation
click(s, target) ==
  LET atTrigger == target = "trigger" /\ <<"click", "clickHandler">> \in elListeners
      s1 == IF atTrigger THEN clickHandler(s) ELSE s
      \* clickHandler calls e.stopPropagation(), on this trigger and on any
      \* other element that carries the directive with the click modifier
      stopped == atTrigger \/ target = "otherTrigger"
  IN IF ~stopped /\ s1.docClick THEN clickOutsideHandler(s1, target) ELSE s1

\* what a click can land on where the pointer is: away from the trigger and
\* the floating element, some other element, which may carry the directive
ClickTargets == IF pointer = "outside" THEN {"outside", "otherTrigger"}
                ELSE {pointer}

Click(target) ==
  /\ phase # "unmounted"
  /\ target \in ClickTargets
  /\ (target = "trigger" /\ <<"click", "clickHandler">> \in elListeners
        /\ popover = NoElem) => FreshIds(Cur) # {}
  /\ LET s == click(Cur, target) IN
       /\ WithinBounds(s)
       /\ Commit(s, pointer, target)
  /\ UNCHANGED <<phase, binding, latest, elListeners>>

\* 100 ms pass; no timer is due
Tick ==
  /\ timeout # 0
  /\ \A i \in DOMAIN destroyTimers : destroyTimers[i] # 0
  /\ timeout # NoTimer \/ destroyTimers # <<>>
  /\ timeout' = IF timeout = NoTimer THEN NoTimer ELSE timeout - 1
  /\ destroyTimers' = [i \in DOMAIN destroyTimers |-> destroyTimers[i] - 1]
  /\ unhandled' = FALSE
  /\ clicked' = "none"
  /\ UNCHANGED <<phase, binding, latest, popover, body, elems, cleanup, subs,
                 docClick, elListeners, inflight, pointer>>

\* setTimeout(() => destroyPopover(), time * 1000) runs
DestroyTimerFires ==
  /\ destroyTimers # <<>>
  /\ Head(destroyTimers) = 0
  /\ Commit(destroyPopover([Cur EXCEPT !.destroyTimers = Tail(@)]), pointer, "none")
  /\ UNCHANGED <<phase, binding, latest, elListeners>>

\* setTimeout(hidePopover, CLOSE_DELAY) runs
AutoCloseFires ==
  /\ timeout = 0
  /\ Commit(hidePopover([Cur EXCEPT !.timeout = NoTimer]), pointer, "none")
  /\ UNCHANGED <<phase, binding, latest, elListeners>>

\* a live autoUpdate subscription calls updatePosition
AutoUpdateFires ==
  /\ subs > 0
  /\ Commit(updatePosition(Cur), pointer, "none")
  /\ UNCHANGED <<phase, binding, latest, elListeners>>

\* a pending computePosition promise resolves with a placement
ComputeResolves(call, finalPlacement) ==
  /\ call \in inflight
  /\ LET s == applyPosition([Cur EXCEPT !.inflight = @ \ {call}], finalPlacement) IN
       Commit(s, pointer, "none")
  /\ UNCHANGED <<phase, binding, latest, elListeners>>

Next ==
  \/ \E c \in BOOLEAN, h \in BOOLEAN, a \in Args, v \in Values : Attach(c, h, a, v)
  \/ \E v \in Values : Update(v)
  \/ Detach
  \/ \E to \in {"outside", "trigger", "popover"} : PointerMove(to)
  \/ \E target \in {"outside", "trigger", "popover", "otherTrigger"} : Click(target)
  \/ Tick
  \/ DestroyTimerFires
  \/ AutoCloseFires
  \/ AutoUpdateFires
  \/ \E call \in {"current", "stale"}, p \in Resolved(placement) :
       ComputeResolves(call, p)

Spec == Init /\ [][Next]_vars

\* the same steps for a binding whose argument and value never change
FixedArg == NoArg
FixedValue == [kind |-> "str", s |-> <<" ", "a", " ">>, n |-> 0]

NextFixed ==
  \/ \E c \in BOOLEAN, h \in BOOLEAN : Attach(c, h, FixedArg, FixedValue)
  \/ Update(FixedValue)
  \/ Detach
  \/ \E to \in {"outside", "trigger", "popover"} : PointerMove(to)
  \/ \E target \in {"outside", "trigger", "popover", "otherTrigger"} : Click(target)
  \/ Tick
  \/ DestroyTimerFires
  \/ AutoCloseFires
  \/ AutoUpdateFires
  \/ \E call \in {"current", "stale"}, p \in Resolved(placement) :
       ComputeResolves(call, p)

FixedSpec == Init /\ [][NextFixed]_vars

\* the event loop runs a timer that is due, and time passes
FairSpec ==
  /\ FixedSpec
  /\ WF_vars(Tick)
  /\ WF_vars(DestroyTimerFires)
  /\ WF_vars(AutoCloseFires)

\* hover mode without modifiers, for every placement the argument can name
NextPlacement ==
  \/ \E a \in Placements \cup {NoArg} : Attach(FALSE, FALSE, a, FixedValue)
  \/ \E to \in {"outside", "trigger"} : PointerMove(to)
  \/ Tick
  \/ DestroyTimerFires
  \/ AutoUpdateFires
  \/ \E call \in {"current", "stale"}, p \in Resolved(placement) :
       ComputeResolves(call, p)

PlacementSpec == Init /\ [][NextPlacement]_vars

\* hover mode with and without html, for every kind of binding value
NextContent ==
  \/ \E h \in BOOLEAN, v \in WideValues : Attach(FALSE, h, FixedArg, v)
  \/ \E v \in WideValues : Update(v)
  \/ Detach
  \/ \E to \in {"outside", "trigger", "popover"} : PointerMove(to)
  \/ Tick
  \/ DestroyTimerFires
  \/ AutoCloseFires

ContentSpec == Init /\ [][NextContent]_vars

\* every mode, with the host supplying new values after mounting
NextUpdate ==
  \/ \E c \in BOOLEAN, h \in BOOLEAN : Attach(c, h, FixedArg, FixedValue)
  \/ \E v \in Values : Update(v)
  \/ Detach
  \/ \E to \in {"outside", "trigger", "popover"} : PointerMove(to)
  \/ \E target \in {"outside", "trigger", "popover", "otherTrigger"} : Click(target)
  \/ Tick
  \/ DestroyTimerFires
  \/ AutoCloseFires
  \/ AutoUpdateFires
  \/ \E call \in {"current", "stale"}, p \in Resolved(placement) :
       ComputeResolves(call, p)

UpdateSpec == Init /\ [][NextUpdate]_vars

TypeOK ==
  /\ phase \in {"unmounted", "mounted", "detached"}
  /\ popover \in ElemIds \cup {NoElem}
  /\ body \subseteq ElemIds
  /\ timeout \in NoTimer..CLOSE_DELAY
  /\ \A i \in DOMAIN destroyTimers : destroyTimers[i] \in 0..time
  /\ subs \in 0..MaxSubs
  /\ pointer \in {"outside", "trigger", "popover"}

\* ---------------------------------------------------------------- claims
Mounted == phase = "mounted"
PointerOff == pointer = "outside"
PointerOver == pointer \in {"trigger", "popover"}

\* C1: at most one floating element created for the trigger is in the
\* document at any time, whatever the sequence of events.
C1_AtMostOneFloating == Cardinality(body) <= 1

\* a Show that re-used the element while an earlier Hide's fade was pending
C1_Witness == State = "showing" /\ destroyTimers # <<>> /\ Cardinality(body) = 1

\* C2: a repositioning subscription is active if and only if the floating
\* element exists and is shown; none is left uncancelled.
C2_SubscriptionIffShown == (subs > 0) <=> (State = "showing")

\* C3: after Detach the state is idle, no auto-close timer and no destruction
\* timer is pending and no repositioning subscription is active.
C3_DetachCancelsAll ==
  phase = "detached" =>
    /\ State = "idle"
    /\ timeout = NoTimer
    /\ destroyTimers = <<>>
    /\ subs = 0

\* C4: after Detach no listener of the directive remains on the trigger, on
\* the document or on a floating element in the document, and no floating
\* element of the trigger remains in the document.
C4_DetachRemovesAll ==
  phase = "detached" =>
    /\ elListeners = {}
    /\ ~docClick
    /\ \A id \in body : ~elems[id].hover
    /\ body = {}
    /\ popover = NoElem

\* Detach ran in click mode while the popover was showing
C4_Witness == phase = "detached" /\ binding.click /\ subs > 0

\* C5: whenever Show runs, the content of the floating element is the
\* rendering of the binding value most recently supplied by the host.
C5_ShowRendersLatest ==
  [][(State # "showing" /\ State' = "showing")
       => elems'[popover'].content = setContent(latest')]_vars

\* C6: for an interactive popover that is shown, no hide is initiated and
\* the floating element is not destroyed while the pointer is over the
\* floating element, also when the pointer moves onto it from the trigger.
C6_NoHideWhileOverPopover ==
  [][(Mounted /\ phase' = "mounted" /\ isInteractive /\ State = "showing"
        /\ (pointer = "popover" \/ pointer' = "popover"))
       => State' = "showing"]_vars

\* C7: in click mode, when showing, every click whose target is outside the
\* trigger and the floating element moves the popover to hiding.
C7_OutsideClickHides ==
  [][(Mounted /\ phase' = "mounted" /\ binding.click /\ State = "showing"
        /\ clicked' \in {"outside", "otherTrigger"})
       => State' = "hiding"]_vars

\* C8: in click mode a click on the trigger toggles: from idle and from hiding
\* to showing, from showing to hiding; the click that opens the popover is not
\* also handled as an outside click, so the popover is left showing and the
\* outside-click listener registered.
C8_ClickToggles ==
  [][(Mounted /\ phase' = "mounted" /\ binding.click /\ clicked' = "trigger")
       => /\ State = "showing" => State' = "hiding"
          /\ State # "showing" => State' = "showing" /\ docClick']_vars

\* a click on the trigger re-opened the popover while it was fading out
C8_Witness ==
  /\ Mounted /\ binding.click /\ clicked = "trigger"
  /\ State = "showing" /\ destroyTimers # <<>>

\* C9: once a Hide took effect the destruction timer is pending, and unless a
\* Show or Detach intervenes the floating element is removed when it fires:
\* the popover never stays in hiding forever.
C9_HidingEnds ==
  /\ [](State = "hiding" => destroyTimers # <<>>)
  /\ [][(State = "hiding" /\ State' = "idle" /\ phase' = phase)
          => (Head(destroyTimers) = 0 /\ body' = {})]_vars
  /\ (State = "hiding") ~> (State # "hiding")

\* the 200 ms of a Hide have elapsed and its destruction timer is due
C9_Witness == State = "hiding" /\ Len(destroyTimers) = 1 /\ Head(destroyTimers) = 0

\* C10: in click mode no auto-close timer is pending while the pointer is
\* over the trigger or the floating element; while the popover is showing and
\* the pointer is off both the countdown is running, entering either element
\* cancels it and leaves the popover showing, and when it runs out the popover
\* moves to hiding.
C10_AutoClose ==
  /\ []((Mounted /\ binding.click) =>
          /\ PointerOver => timeout = NoTimer
          /\ (State = "showing" /\ PointerOff) => timeout \in 0..CLOSE_DELAY)
  /\ [][(Mounted /\ phase' = "mounted" /\ binding.click /\ State = "showing") =>
          /\ (PointerOff /\ PointerOver') => (State' = "showing" /\ timeout' = NoTimer)
          /\ (timeout = 0 /\ timeout' = NoTimer /\ PointerOff') => State' = "hiding"]_vars
  /\ (Mounted /\ binding.click /\ State = "showing" /\ PointerOff)
       ~> ~(State = "showing" /\ PointerOff)

\* the pointer has been off both elements for 500 ms with the popover showing
C10_Witness ==
  Mounted /\ binding.click /\ State = "showing" /\ PointerOff /\ timeout = 0

\* C11: for each of the 12 requested placements and each placement the solver
\* resolves to, once a positioning result has been applied the transform-origin
\* of the floating element is the side opposite to the resolved side
\* (top<->bottom, left<->right), whatever the requested placement and the
\* -start / -end alignment.
OppositeSide(side) ==
  CASE side = "top" -> "bottom"
    [] side = "bottom" -> "top"
    [] side = "left" -> "right"
    [] side = "right" -> "left"

C11_OriginOppositeResolved ==
  \A id \in body :
    elems[id].position # NoArg =>
      elems[id].transformOrigin = OppositeSide(elems[id].position.side)

\* a result was applied that differs from the request in side and alignment
C11_Witness ==
  /\ popover # NoElem
  /\ elems[popover].position # NoArg
  /\ elems[popover].position.side # placement.side
  /\ placement.align # ""
  /\ elems[popover].position.align # placement.align

\* C12: setContent renders by this table for every html flag and value kind:
\* a function value is called and its result inserted as markup whether or
\* not html is set; any other value is inserted as markup only when html is
\* set and as plain text otherwise, string-converted and trimmed; an absent
\* value gives empty content in both modes.
IsTrimOf(t, str) ==
  \E i \in 1..(Len(str) + 1), j \in 0..Len(str) :
    /\ t = SubSeq(str, i, j)
    /\ \A k \in 1..(i - 1) : str[k] = " "
    /\ \A k \in (j + 1)..Len(str) : str[k] = " "
    /\ t # <<>> => (t[1] # " " /\ t[Len(t)] # " ")

Rendered(c, b) ==
  /\ b.value.kind = "fn" => (c.markup /\ c.text = b.value.s)
  /\ b.value.kind # "fn" => (c.markup <=> b.html)
  /\ b.value.kind \in {"str", "num"} => IsTrimOf(c.text, toString(b.value))
  /\ b.value.kind = "absent" => c.text = <<>>

C12_ContentTable ==
  \A id \in body :
    Rendered(elems[id].content, binding) \/ Rendered(elems[id].content, latest)

\* Show rendered a function value without the html modifier
C12_Witness ==
  /\ State = "showing" /\ latest = binding
  /\ ~binding.html /\ binding.value.kind = "fn"
  /\ elems[popover].content = [markup |-> TRUE, text |-> binding.value.s]

\* C13: when a Show comes while the destruction scheduled by an earlier Hide
\* is pending, that destruction is superseded: the earlier timer, when it
\* fires, does not remove the re-shown floating element, which stays showing.
C13_ReshowSupersedesDestroy ==
  [][(/\ phase' = phase
      /\ State = "showing"
      /\ destroyTimers # <<>>
      /\ Head(destroyTimers) = 0
      /\ destroyTimers' = Tail(destroyTimers))
       => (State' = "showing" /\ body' = body)]_vars

\* C14: a positioning result that arrives after the floating element it was
\* computed for was destroyed or replaced is discarded: no error is raised
\* and no style of any floating element changes.
C14_StaleResultDiscarded ==
  [][("stale" \in inflight /\ "stale" \notin inflight')
       => (~unhandled' /\ elems' = elems)]_vars

\* C15: of each kind of timer of a trigger (auto-close, destruction) at most
\* one is pending at any time.
C15_OneTimerPerKind == Len(destroyTimers) <= 1

\* C16: in hover mode (no click modifier, with or without html) no 500 ms
\* auto-close timer is ever scheduled, and while the pointer stays over the
\* trigger after entering it the popover remains showing.
C16_HoverNoAutoClose ==
  /\ []((Mounted /\ ~binding.click) => timeout = NoTimer)
  /\ [][(/\ Mounted /\ phase' = phase /\ ~binding.click
          /\ State = "showing"
          /\ pointer = "trigger" /\ pointer' = "trigger")
           => State' = "showing"]_vars

\* C17: the outside-click listener is registered on the document exactly
\* while the trigger is in click mode and its popover is showing.
C17_DocListenerIffClickShowing ==
  docClick <=> (binding.click /\ State = "showing")

\* C18: Update changes nothing but the content of an existing floating
\* element: state, position, transform-origin, timers, subscription and
\* listeners stay as they are, and without a floating element nothing changes
\* and none is created.
ContentOnly(old, new) == new = [old EXCEPT !.content = new.content]

C18_UpdateOnlyContent ==
  [][(\E v \in Values : Update(v)) =>
       /\ popover' = popover /\ body' = body /\ State' = State
       /\ timeout' = timeout /\ destroyTimers' = destroyTimers
       /\ subs' = subs /\ cleanup' = cleanup /\ inflight' = inflight
       /\ docClick' = docClick /\ elListeners' = elListeners
       /\ \A id \in ElemIds :
            IF id = popover THEN ContentOnly(elems[id], elems'[id])
            ELSE elems'[id] = elems[id]]_vars

\* in click mode an Update replaced the content of a re-shown, positioned
\* popover whose earlier fade timer is still pending
C18_Witness ==
  /\ binding.click /\ docClick
  /\ State = "showing" /\ destroyTimers # <<>>
  /\ elems[popover].position # NoArg
  /\ elems[popover].content = setContent(latest)
  /\ elems[popover].content # setContent(binding)

\* C19: the trigger's reference to its floating element and the document
\* agree in every state: the reference is set exactly when that element, and
\* no other, is attached to the body.
C19_ReferenceAgreesWithDocument ==
  body = IF popover = NoElem THEN {} ELSE {popover}

\* the destruction timer removed the element while a positioning call for it
\* was pending
C19_Witness ==
  Mounted /\ popover = NoElem /\ body = {} /\ "stale" \in inflight

====
